---- MODULE Spec2Model ----
(***************************************************************************)
(* The linear-chain CRF of model/crfV1.py (class CRF): transition energy,  *)
(* sequence score, sampled normaliser and Viterbi decoding.                *)
(*                                                                         *)
(* Tensors are functions with 0-based domains, in the layout the private   *)
(* methods see after the batch_first transpose:                            *)
(*   emissions[i][j][t]   time step i, batch element j, tag t              *)
(*   tags[i][j], mask[i][j]                                                *)
(* Real numbers are exact: embeddings and weights are integers, emissions  *)
(* and scores are integers in units of ln 2. Floating-point rounding is    *)
(* not modelled.                                                           *)
(***************************************************************************)
EXTENDS Integers, Sequences, FiniteSets, TLC

VARIABLES pc, num_tags, neg_nums, W,
          emissions, tags, mask, full_road_emb, A_list,
          i, score, trans, next_score, indices, history, best_tags_list,
          numerator, neg_tag_sets, denominator, energy

vars == <<pc, num_tags, neg_nums, W, emissions, tags, mask, full_road_emb,
          A_list, i, score, trans, next_score, indices, history,
          best_tags_list, numerator, neg_tag_sets, denominator, energy>>

(* ------------------------------ bounds --------------------------------- *)

\* largest num_tags a CRF is constructed with
MaxTags == 3
\* largest seq_length of a call
MaxLen == 3
\* default of the neg_nums constructor parameter
DefaultNegNums == 500

\* batch elements of a call (batch_size 2)
Batch == 0 .. 1
\* emission values a call may carry
EmVals == {0, 3}

TagSet(N) == 0 .. (N - 1)
StepSet(T) == 0 .. (T - 1)

(* --------------------------- tensor helpers ---------------------------- *)

\* a tensor held as a value: f, evaluated once
Tensor(f) == IF f = f THEN f ELSE f

RECURSIVE SumTo(_, _)
\* f[0] + ... + f[n-1]
SumTo(f, n) == IF n = 0 THEN 0 ELSE SumTo(f, n - 1) + f[n - 1]

\* seq_length and num_tags of a tensor: emissions.size(0), mask.shape
SeqLength(x) == Cardinality(DOMAIN x)

\* torch.max over a vector: << maximal value, first index attaining it >>
MaxOf(v) ==
    LET m == CHOOSE x \in {v[k] : k \in DOMAIN v} : \A k \in DOMAIN v : v[k] <= x
        first == CHOOSE k \in DOMAIN v :
                    v[k] = m /\ \A l \in DOMAIN v : v[l] = m => k <= l
    IN  <<m, first>>

\* relu left out
reluIdentity(x) == x

\* F.relu
relu(x) == IF x > 0 THEN x ELSE 0

\* dot product of two vectors (Seq of Int) of equal length
Dot(x, y) == SumTo([k \in 0 .. (Len(x) - 1) |-> x[k + 1] * y[k + 1]], Len(x))

\* nn.Linear: y = x W^T + b
Linear(lin, x) ==
    [k \in 1 .. Len(lin.bias) |-> Dot(lin.weight[k], x) + lin.bias[k]]

(* -------------------------- transition energy -------------------------- *)

\* CRF.transition: per batch element, A[tag1, tag2] * relu(W(emb[tag1]) . emb[tag2])
transition(tag1, tag2, emb, A) ==
    [j \in DOMAIN tag1 |->
        LET emb1 == Linear(W, emb[tag1[j]])
            emb2 == emb[tag2[j]]
            r    == relu(Dot(emb1, emb2))
        IN  A[tag1[j]][tag2[j]] * r]

\* transitions with the product taken the other way round:
\* A * relu(emb @ W(emb).T)
transitionsTransposed(emb, A) ==
    LET projected == Tensor([a \in DOMAIN emb |-> Linear(W, emb[a])])
        attention == Tensor([a \in DOMAIN emb |->
                        [b \in DOMAIN emb |-> Dot(emb[a], projected[b])]])
    IN  [a \in DOMAIN emb |-> [b \in DOMAIN emb |-> A[a][b] * relu(attention[a][b])]]

\* CRF.transitions: A * relu(W(emb) @ emb.T), a num_tags x num_tags matrix
transitions(emb, A) ==
    LET projected == Tensor([a \in DOMAIN emb |-> Linear(W, emb[a])])
        attention == Tensor([a \in DOMAIN emb |->
                        [b \in DOMAIN emb |-> Dot(projected[a], emb[b])]])
    IN  [a \in DOMAIN emb |-> [b \in DOMAIN emb |-> A[a][b] * relu(attention[a][b])]]

(* ------------------------------ scoring -------------------------------- *)

\* the mask ignored
MaskFloatAll(m) == 1

\* mask.float()
MaskFloat(m) == IF m THEN 1 ELSE 0

RECURSIVE ScoreLoop(_, _, _, _, _, _, _)
\* the for-loop of _compute_score from step k on
ScoreLoop(k, sc, em, tg, emb, A, mk) ==
    IF k >= SeqLength(tg) THEN sc
    ELSE LET tr == Tensor(transition(tg[k - 1], tg[k], emb, A))
             s1 == Tensor([j \in DOMAIN sc |-> sc[j] + tr[j] * MaskFloat(mk[k][j])])
             s2 == Tensor([j \in DOMAIN sc |->
                       s1[j] + em[k][j][tg[k][j]] * MaskFloat(mk[k][j])])
         IN  ScoreLoop(k + 1, s2, em, tg, emb, A, mk)

\* CRF._compute_score
_compute_score(em, tg, emb, A, mk) ==
    LET zero  == [j \in DOMAIN tg[0] |-> 0]
        first == [j \in DOMAIN tg[0] |-> zero[j] + em[0][j][tg[0][j]]]
    IN  ScoreLoop(1, first, em, tg, emb, A, mk)

(* ------------------------------ Viterbi -------------------------------- *)

\* ViterbiMax with the transition matrix read column = previous tag
ViterbiMaxTransposed(sc, tr, em) ==
    [cur \in DOMAIN em |->
        MaxOf([prev \in DOMAIN sc |-> sc[prev] + tr[cur][prev] + em[cur]])]

\* ViterbiMax with the step's emissions left out
ViterbiMaxNoEmission(sc, tr, em) ==
    [cur \in DOMAIN em |->
        MaxOf([prev \in DOMAIN sc |-> sc[prev] + tr[prev][cur]])]

\* torch.max(score[j].unsqueeze(1) + trans + emissions[i,j,:].unsqueeze(0), dim=0)
ViterbiMax(sc, tr, em) ==
    [cur \in DOMAIN em |->
        MaxOf([prev \in DOMAIN sc |-> sc[prev] + tr[prev][cur] + em[cur]])]

\* torch.where left out: score = next_score
WhereAlways(mk, nxt, sc) == nxt

\* torch.where(mask[i].unsqueeze(1), next_score, score)
Where(mk, nxt, sc) == [j \in DOMAIN sc |-> IF mk[j] THEN nxt[j] ELSE sc[j]]

\* ViterbiIter that overwrites the score at every step, masked or not
ViterbiIterNoMask(sc, tr, em, mk) ==
    LET cur == Tensor([j \in DOMAIN sc |-> ViterbiMax(sc[j], tr, em[j])])
        nxt == [j \in DOMAIN sc |-> [t \in DOMAIN em[j] |-> cur[j][t][1]]]
        ind == [j \in DOMAIN sc |-> [t \in DOMAIN em[j] |-> cur[j][t][2]]]
    IN  [next_score |-> Tensor(nxt), indices |-> Tensor(ind),
         score |-> Tensor(nxt)]

\* one iteration of the loop over time steps of _viterbi_decode, for the
\* whole batch: the new next_score, indices and score
ViterbiIter(sc, tr, em, mk) ==
    LET cur == Tensor([j \in DOMAIN sc |-> ViterbiMax(sc[j], tr, em[j])])
        nxt == [j \in DOMAIN sc |-> [t \in DOMAIN em[j] |-> cur[j][t][1]]]
        ind == [j \in DOMAIN sc |-> [t \in DOMAIN em[j] |-> cur[j][t][2]]]
    IN  [next_score |-> Tensor(nxt), indices |-> Tensor(ind),
         score |-> Tensor(Where(mk, nxt, sc))]

\* the whole history, whatever the element's length
SliceAll(s, e) == s

\* Python's seq[:e]
SliceTo(s, e) ==
    LET n == IF e >= 0 THEN (IF e < Len(s) THEN e ELSE Len(s))
             ELSE (IF Len(s) + e > 0 THEN Len(s) + e ELSE 0)
    IN  SubSeq(s, 1, n)

\* mask.long().sum(dim=0) - 1
SeqEnds(mk) ==
    [j \in DOMAIN mk[0] |->
        SumTo([k \in DOMAIN mk |-> MaskFloat(mk[k][j])], SeqLength(mk)) - 1]

RECURSIVE TraceLoop(_, _, _, _)
\* for hist in reversed(hs): best_tags.append(hist[idx][best_tags[-1]])
TraceLoop(hs, k, idx, best) ==
    IF k = 0 THEN best
    ELSE TraceLoop(hs, k - 1, idx, Append(best, hs[k][idx][best[Len(best)]]))

\* list.reverse()
Reverse(s) == [k \in 1 .. Len(s) |-> s[Len(s) + 1 - k]]

\* the trace-back of _viterbi_decode for batch element idx
BestTags(sc, hist, mk, idx) ==
    LET hs        == SliceTo(hist, SeqEnds(mk)[idx])
        best      == TraceLoop(hs, Len(hs), idx, <<MaxOf(sc[idx])[2]>>)
        best_tags == Reverse(best)
        tags_len  == Len(best_tags)
    IN  best_tags \o [k \in 1 .. (SeqLength(mk) - tags_len) |-> -1]

RECURSIVE ViterbiLoop(_, _, _, _, _, _)
\* the loop of _viterbi_decode from step k on: << score, history >>
ViterbiLoop(k, sc, hist, tr, em, mk) ==
    IF k >= SeqLength(mk) THEN <<sc, hist>>
    ELSE LET it == ViterbiIter(sc, tr, em[k], mk[k])
         IN  ViterbiLoop(k + 1, it.score, Append(hist, it.indices), tr, em, mk)

\* CRF._viterbi_decode as a function of its arguments
_viterbi_decode(em, emb, A, mk) ==
    LET res == ViterbiLoop(1, em[0], <<>>, Tensor(transitions(emb, A)), em, mk)
    IN  [idx \in DOMAIN mk[0] |-> BestTags(res[1], res[2], mk, idx)]

(* ----------------------------- normaliser ------------------------------ *)
(* Scores are in units of ln 2, so exp(score) = 2^score is an integer. A   *)
(* value that logsumexp produces is held as its exponential: the running   *)
(* score of _compute_normalizer is held as exp(score), and the result as   *)
(* the fraction num/den = exp(result).                                     *)

RECURSIVE Pow2(_)
\* exp of a score given in units of ln 2
Pow2(e) == IF e = 0 THEN 1 ELSE 2 * Pow2(e - 1)

RECURSIVE SumSeq(_)
\* s[1] + ... + s[Len(s)]
SumSeq(s) == IF s = <<>> THEN 0 ELSE s[1] + SumSeq(Tail(s))

\* exp of torch.logsumexp(broadcast_score + trans + broadcast_emissions, dim=1)
ForwardSum(sc, tr, em, sample) ==
    [c \in DOMAIN sample |->
        SumSeq([p \in DOMAIN sample |->
                  sc[p] * Pow2(tr[p][c] + em[sample[c]])])]

RECURSIVE NormLoop(_, _, _, _, _, _)
\* the for-loop of _compute_normalizer from step k on
NormLoop(k, sc, tr, em, mk, sample) ==
    IF k >= SeqLength(em) THEN sc
    ELSE LET nxt == [j \in DOMAIN sc |-> ForwardSum(sc[j], tr, em[k][j], sample)]
         IN  NormLoop(k + 1, Tensor(Where(mk[k], nxt, sc)), tr, em, mk, sample)

\* the logsumexp without the gold score appended
CatSumNoGold(sc, num) == SumSeq(sc)

\* torch.cat((score, numerator.reshape(-1, 1)), dim=1), then exp of the
\* logsumexp over dim 1
CatSum(sc, num) == SumSeq(sc) + Pow2(num)

\* CRF._compute_normalizer for the drawn sample: exp of the result as a
\* fraction; the correction log(num_tags / (neg_nums + 1)) multiplies it
_compute_normalizer(em, emb, A, mk, num, sample) ==
    LET score0 == Tensor([j \in DOMAIN em[0] |->
                     [s \in DOMAIN sample |-> Pow2(em[0][j][sample[s]])]])
        full   == Tensor(transitions(emb, A))
        tr     == Tensor([p \in DOMAIN sample |->
                     [c \in DOMAIN sample |-> full[sample[p]][sample[c]]]])
        last   == NormLoop(1, score0, tr, em, mk, sample)
    IN  [j \in DOMAIN em[0] |->
            [num |-> CatSum(last[j], num[j]) * num_tags, den |-> neg_nums + 1]]

\* the outcomes of np.random.choice(n, k, replace=False), k <= n: k distinct
\* tags (listed in increasing order; every use of the sample is symmetric
\* in its order)
RECURSIVE Ascending(_)
Ascending(S) ==
    IF S = {} THEN <<>>
    ELSE LET m == CHOOSE x \in S : \A y \in S : x <= y
         IN  <<m>> \o Ascending(S \ {m})

Samples(n, k) == { Ascending(S) : S \in { X \in SUBSET TagSet(n) : Cardinality(X) = k } }

(* ------------------------------- inputs -------------------------------- *)

\* nn.Linear(emb_dim, emb_dim) at construction, emb_dim = 2
LinearChoices ==
    { [weight |-> <<<<1, 0>>, <<0, 1>>>>, bias |-> <<0, 0>>],
      [weight |-> <<<<0, 1>>, <<0, 0>>>>, bias |-> <<0, 0>>] }

\* embedding tables of the encoder
EmbTables(N) ==
    { [t \in TagSet(N) |-> <<1 - 2 * (t % 2), 1>>] }

\* adjacency as utils_gq/build_A.py builds it: the identity plus symmetric
\* edges; here no edge, the edges of a path, every edge
Adjacencies(N) ==
    { [a \in TagSet(N) |-> [b \in TagSet(N) |-> IF a = b THEN 1 ELSE 0]],
      [a \in TagSet(N) |-> [b \in TagSet(N) |->
            IF a - b \in {-1, 0, 1} THEN 1 ELSE 0]],
      [a \in TagSet(N) |-> [b \in TagSet(N) |-> 1]] }

\* one time step's emission of one batch element: zero but for one tag
Rows(N) == { [t \in TagSet(N) |-> IF t = f THEN v ELSE 0] :
                f \in TagSet(N), v \in EmVals }

\* emissions of a batch: at each step one tag is favoured, with a value of
\* the pattern v; the favoured tag walks the tags from f0 with stride d.
\* Element 0 sees the walk, element 1 sees it in reverse time order
EmissionWalks(N, T, Vals) ==
    { [k \in StepSet(T) |-> [j \in Batch |->
            LET kk == IF j = 0 THEN k ELSE T - 1 - k
            IN  [t \in TagSet(N) |->
                    IF t = (f0 + d * kk) % N THEN v[kk] ELSE 0]]] :
      f0 \in TagSet(N), d \in {0, 1}, v \in Vals }

\* emissions of a decode call: any value at each step
EmissionInputs(N, T) == EmissionWalks(N, T, [StepSet(T) -> EmVals])

\* emissions of a forward call: the same value at every step
ForwardEmissionInputs(N, T) ==
    EmissionWalks(N, T, { [k \in StepSet(T) |-> x] : x \in EmVals })

\* mask of a batch: a prefix of True per element, of any length 0 .. T, the
\* batch being padded to its longest element
MaskInputs(T) ==
    { [k \in StepSet(T) |-> [j \in Batch |-> k < len[j]]] :
      len \in { l \in [Batch -> 0 .. T] : \E j \in Batch : l[j] = T } }

\* gold tags of a batch: element 0 walks the tags from any start with stride
\* 0 or 1, element 1 is the same walk in reverse time order
TagInputs(N, T) ==
    { [k \in StepSet(T) |-> [j \in Batch |->
            IF j = 0 THEN (t0 + d * k) % N ELSE (t0 + d * (T - 1 - k)) % N]] :
      t0 \in TagSet(N), d \in {0, 1} }

(* ------------------------------- state --------------------------------- *)

None == "none"

Init ==
    /\ pc = "new"
    /\ num_tags = 0
    /\ neg_nums = 0
    /\ W = None
    /\ emissions = None /\ tags = None /\ mask = None
    /\ full_road_emb = None /\ A_list = None
    /\ i = 0
    /\ score = None /\ trans = None /\ next_score = None /\ indices = None
    /\ history = <<>>
    /\ best_tags_list = None
    /\ numerator = None /\ neg_tag_sets = None /\ denominator = None
    /\ energy = None

\* CRF.__init__
Construct(N, k, lin) ==
    /\ pc = "new"
    /\ num_tags' = N
    /\ neg_nums' = k
    /\ W' = lin
    /\ pc' = "ready"
    /\ UNCHANGED <<emissions, tags, mask, full_road_emb, A_list, i, score,
                   trans, next_score, indices, history, best_tags_list,
                   numerator, neg_tag_sets, denominator, energy>>

\* a CRF built for inference: neg_nums keeps its default
ConstructDefault ==
    \E N \in 2 .. MaxTags, lin \in LinearChoices :
        Construct(N, DefaultNegNums, lin)

\* CRF.decode and the start of _viterbi_decode, up to the loop
DecodeCall ==
    /\ pc = "ready"
    /\ \E T \in 1 .. MaxLen :
       \E em \in EmissionInputs(num_tags, T), mk \in MaskInputs(T),
          emb \in EmbTables(num_tags), A \in Adjacencies(num_tags) :
            /\ emissions' = em
            /\ mask' = mk
            /\ full_road_emb' = emb
            /\ A_list' = A
            /\ score' = em[0]
            /\ history' = <<>>
            /\ trans' = transitions(emb, A)
            /\ next_score' = [j \in Batch |-> [t \in TagSet(num_tags) |-> 0]]
            /\ indices' = [j \in Batch |-> [t \in TagSet(num_tags) |-> 0]]
            /\ i' = 1
    /\ pc' = "viterbi"
    /\ UNCHANGED <<num_tags, neg_nums, W, tags, best_tags_list, numerator,
                   neg_tag_sets, denominator, energy>>

\* one iteration of the loop over time steps of _viterbi_decode
ViterbiStep ==
    /\ pc = "viterbi"
    /\ i < SeqLength(mask)
    /\ LET it == ViterbiIter(score, trans, emissions[i], mask[i])
       IN  /\ next_score' = it.next_score
           /\ indices' = it.indices
           /\ score' = it.score
           /\ history' = Append(history, it.indices)
    /\ i' = i + 1
    /\ UNCHANGED <<pc, num_tags, neg_nums, W, emissions, tags, mask,
                   full_road_emb, A_list, trans, best_tags_list, numerator,
                   neg_tag_sets, denominator, energy>>

\* the trace-back of _viterbi_decode, for every batch element
TraceBack ==
    /\ pc = "viterbi"
    /\ i >= SeqLength(mask)
    /\ best_tags_list' = [idx \in Batch |-> BestTags(score, history, mask, idx)]
    /\ pc' = "decoded"
    /\ UNCHANGED <<num_tags, neg_nums, W, emissions, tags, mask,
                   full_road_emb, A_list, i, score, trans, next_score,
                   indices, history, numerator, neg_tag_sets, denominator,
                   energy>>

\* CRF built for training: neg_nums as configured, checked nowhere
ConstructAny ==
    \E N \in 2 .. MaxTags, lin \in LinearChoices :
        \E k \in 1 .. (N + 1) : Construct(N, k, lin)

\* CRF.forward up to the numerator
ForwardCall ==
    /\ pc = "ready"
    /\ \E T \in 1 .. MaxLen :
       \E em \in ForwardEmissionInputs(num_tags, T), tg \in TagInputs(num_tags, T),
          mk \in MaskInputs(T),
          emb \in EmbTables(num_tags), A \in Adjacencies(num_tags) :
            /\ emissions' = em
            /\ tags' = tg
            /\ mask' = mk
            /\ full_road_emb' = emb
            /\ A_list' = A
            /\ numerator' = _compute_score(em, tg, emb, A, mk)
    /\ pc' = "scored"
    /\ UNCHANGED <<num_tags, neg_nums, W, i, score, trans, next_score, indices,
                   history, best_tags_list, neg_tag_sets, denominator, energy>>

\* CRF.forward, the denominator: _compute_normalizer with the sample it draws
Normalizer ==
    /\ pc = "scored"
    /\ neg_nums <= num_tags
    /\ \E sample \in Samples(num_tags, neg_nums) :
            /\ neg_tag_sets' = sample
            /\ denominator' = _compute_normalizer(emissions, full_road_emb,
                                  A_list, mask, numerator, sample)
    /\ pc' = "normalized"
    /\ UNCHANGED <<num_tags, neg_nums, W, emissions, tags, mask,
                   full_road_emb, A_list, i, score, trans, next_score,
                   indices, history, best_tags_list, numerator, energy>>

\* np.random.choice raises ValueError: a sample larger than the population
NormalizerError ==
    /\ pc = "scored"
    /\ neg_nums > num_tags
    /\ pc' = "error"
    /\ UNCHANGED <<num_tags, neg_nums, W, emissions, tags, mask,
                   full_road_emb, A_list, i, score, trans, next_score,
                   indices, history, best_tags_list, numerator, neg_tag_sets,
                   denominator, energy>>

(* --------------------- the transition energy alone --------------------- *)

\* nn.Linear weights of any sign, with and without bias
LinearChoicesWide ==
    { [weight |-> w, bias |-> b] :
        w \in { <<<<1, 0>>, <<0, 1>>>>, <<<<0, 1>>, <<-1, 0>>>>,
                <<<<1, -1>>, <<0, 2>>>> },
        b \in { <<0, 0>>, <<1, -1>> } }

\* embedding vectors of any sign
EmbVecs == { <<1, 0>>, <<-1, 1>>, <<0, -1>> }

ConstructWide ==
    \E N \in 2 .. MaxTags, lin \in LinearChoicesWide :
        Construct(N, DefaultNegNums, lin)

\* a call of CRF.transitions
TransitionsCall ==
    /\ pc = "ready"
    /\ \E emb \in [TagSet(num_tags) -> EmbVecs], A \in Adjacencies(num_tags) :
            /\ full_road_emb' = emb
            /\ A_list' = A
            /\ trans' = transitions(emb, A)
    /\ pc' = "matrix"
    /\ UNCHANGED <<num_tags, neg_nums, W, emissions, tags, mask, i, score,
                   next_score, indices, history, best_tags_list, numerator,
                   neg_tag_sets, denominator, energy>>

\* a call of CRF.transition on the same table, as _compute_score makes it:
\* transition(tags[0], tags[1], ...)
TransitionCall ==
    /\ pc = "matrix"
    /\ \E tg \in [StepSet(2) -> [Batch -> TagSet(num_tags)]] :
            /\ tags' = tg
            /\ energy' = transition(tg[0], tg[1], full_road_emb, A_list)
    /\ pc' = "pair"
    /\ UNCHANGED <<num_tags, neg_nums, W, emissions, mask, full_road_emb,
                   A_list, i, score, trans, next_score, indices, history,
                   best_tags_list, numerator, neg_tag_sets, denominator>>

(* --------------------------- specifications ---------------------------- *)

\* training: construction with any neg_nums, then forward
Next == ConstructAny \/ ForwardCall \/ Normalizer \/ NormalizerError

Spec == Init /\ [][Next]_vars

\* inference: construction with the default neg_nums, then decode
NextDecode == ConstructDefault \/ DecodeCall \/ ViterbiStep \/ TraceBack

SpecDecode == Init /\ [][NextDecode]_vars

\* decode and the numerator of forward, on a CRF with the default neg_nums
NextPad ==
    \/ ConstructDefault
    \/ DecodeCall \/ ViterbiStep \/ TraceBack
    \/ ForwardCall \/ NormalizerError

SpecPad == Init /\ [][NextPad]_vars

\* the two forms of the transition energy
NextTrans == ConstructWide \/ TransitionsCall \/ TransitionCall

SpecTrans == Init /\ [][NextTrans]_vars

(* ------------------------------- claims -------------------------------- *)

\* valid length of batch element j: the sum of its mask
ValidLen(j) == SeqEnds(mask)[j] + 1

\* the first L entries of a decoded list, as a 0-based tag sequence
FirstTags(s, L) == [k \in StepSet(L) |-> s[k + 1]]

\* total score of the tag sequence y for batch element j: the first
\* emission plus, per later step of y, transition[prev, cur] + emission[cur]
ScoreOf(y, j) ==
    emissions[0][j][y[0]]
    + SumTo([k \in DOMAIN y |->
                IF k = 0 THEN 0
                ELSE trans[y[k - 1]][y[k]] + emissions[k][j][y[k]]],
            SeqLength(y))

\* C1: for every batch element of valid length L >= 1 the first L decoded
\* tags are tags and score at least as much as every tag sequence of length
\* L over the full tag space
C1_DecodeIsOptimal ==
    pc = "decoded" =>
        \A j \in Batch :
            ValidLen(j) >= 1 =>
                LET L    == ValidLen(j)
                    best == FirstTags(best_tags_list[j], L)
                IN  /\ \A k \in StepSet(L) : best[k] \in TagSet(num_tags)
                    /\ LET top == ScoreOf(best, j)
                       IN  \A y \in [StepSet(L) -> TagSet(num_tags)] :
                              top >= ScoreOf(y, j)

\* a decoded element of full length whose best path gives up the largest
\* emission of some step for the transitions it gains
C1_Witness ==
    /\ pc = "decoded"
    /\ \E j \in Batch :
          /\ ValidLen(j) = MaxLen
          /\ \E k \in StepSet(MaxLen) :
                emissions[k][j][best_tags_list[j][k + 1]]
                    < MaxOf(emissions[k][j])[1]

\* positions of a batch outside the mask
Masked(mk) == { p \in (DOMAIN mk) \X Batch : ~mk[p[1]][p[2]] }

\* the sets of masked positions a perturbation changes: all of them, or the
\* first padding step of one element
PertSets(mk) ==
    {Masked(mk)}
    \cup { {p} : p \in { q \in Masked(mk) : q[1] = 0 \/ mk[q[1] - 1][q[2]] } }

\* emissions that agree with em wherever the mask is 1
PertEmissions(em, mk) ==
    { [k \in DOMAIN em |-> [j \in Batch |->
            IF <<k, j>> \in P THEN r ELSE em[k][j]]] :
      P \in PertSets(mk), r \in Rows(num_tags) }

\* gold tags that agree with tg wherever the mask is 1
PertTags(tg, mk) ==
    { [k \in DOMAIN tg |-> [j \in Batch |->
            IF <<k, j>> \in Masked(mk) THEN t ELSE tg[k][j]]] :
      t \in TagSet(num_tags) }

\* C2 as stated: perturbing emissions (and gold tags) at masked positions
\* changes neither the decoded lists nor the scores, for any prefix mask
C2_PaddingNeverInfluences ==
    /\ pc = "decoded" =>
          \A em2 \in PertEmissions(emissions, mask) :
              _viterbi_decode(em2, full_road_emb, A_list, mask) = best_tags_list
    /\ pc = "scored" =>
          \A em2 \in PertEmissions(emissions, mask), tg2 \in PertTags(tags, mask) :
              _compute_score(em2, tg2, full_road_emb, A_list, mask) = numerator

\* C2 amended: perturbing emissions (and gold tags) at masked positions
\* changes neither the decoded list nor the score of any batch element whose
\* first position is valid
C2_PaddingNeverInfluencesValid ==
    /\ pc = "decoded" =>
          \A em2 \in PertEmissions(emissions, mask) :
              LET best2 == _viterbi_decode(em2, full_road_emb, A_list, mask)
              IN  \A j \in Batch : mask[0][j] => best2[j] = best_tags_list[j]
    /\ pc = "scored" =>
          \A em2 \in PertEmissions(emissions, mask), tg2 \in PertTags(tags, mask) :
              LET score2 == _compute_score(em2, tg2, full_road_emb, A_list, mask)
              IN  \A j \in Batch : mask[0][j] => score2[j] = numerator[j]

\* a decoded batch with an element that has both valid and padding steps
C2_Witness ==
    /\ pc = "decoded"
    /\ \E j \in Batch : ValidLen(j) >= 1 /\ ValidLen(j) < SeqLength(mask)
    /\ PertEmissions(emissions, mask) # {emissions}

\* C3: the normaliser of every batch element is at least its gold score,
\* for every sample the call can draw: exp(denominator) >= exp(numerator)
C3_NormalizerAtLeastGold ==
    pc = "normalized" =>
        \A j \in Batch :
            denominator[j].num >= Pow2(numerator[j]) * denominator[j].den

\* a normaliser computed from a sample that holds no gold tag of an element
C3_Witness ==
    /\ pc = "normalized"
    /\ neg_nums < num_tags
    /\ SeqLength(mask) = MaxLen
    /\ \E j \in Batch :
          /\ ValidLen(j) = MaxLen
          /\ \A k \in DOMAIN tags, s \in DOMAIN neg_tag_sets :
                tags[k][j] # neg_tag_sets[s]

\* the step-by-step sum for batch element j, with the matrix form of the
\* transition energy
ManualScore(j) ==
    LET tr == Tensor(transitions(full_road_emb, A_list))
    IN  emissions[0][j][tags[0][j]]
        + SumTo([k \in DOMAIN tags |->
                    IF k >= 1 /\ mask[k][j]
                    THEN tr[tags[k - 1][j]][tags[k][j]]
                         + emissions[k][j][tags[k][j]]
                    ELSE 0], SeqLength(tags))

\* C4: for every batch element whose first position is valid the score is
\* the first emission plus, per later valid step, transition + emission; a
\* valid length of 1 scores the first emission alone
C4_ScoreIsManualSum ==
    pc = "scored" =>
        \A j \in Batch :
            mask[0][j] =>
                /\ numerator[j] = ManualScore(j)
                /\ ValidLen(j) = 1 => numerator[j] = emissions[0][j][tags[0][j]]

\* a score over valid and padding steps that collects a transition energy
C4_Witness ==
    /\ pc = "scored"
    /\ \E j \in Batch :
          /\ ValidLen(j) >= 2 /\ ValidLen(j) < SeqLength(mask)
          /\ numerator[j] >
                SumTo([k \in DOMAIN tags |->
                          IF mask[k][j] THEN emissions[k][j][tags[k][j]] ELSE 0],
                      SeqLength(tags))

C6_EnergyNonNegativeAndGated ==
    /\ pc \in {"matrix", "pair"} =>
          \A a \in TagSet(num_tags), b \in TagSet(num_tags) :
              /\ trans[a][b] >= 0
              /\ A_list[a][b] = 0 => trans[a][b] = 0
    /\ pc = "pair" =>
          \A j \in Batch :
              /\ energy[j] >= 0
              /\ A_list[tags[0][j]][tags[1][j]] = 0 => energy[j] = 0

\* a table with a non-adjacent pair of positive similarity and an adjacent
\* pair of negative similarity, both asked for as pairs
C6_Witness ==
    /\ pc = "pair"
    /\ A_list[tags[0][0]][tags[1][0]] = 0
    /\ Dot(Linear(W, full_road_emb[tags[0][0]]), full_road_emb[tags[1][0]]) > 0
    /\ A_list[tags[0][1]][tags[1][1]] = 1
    /\ Dot(Linear(W, full_road_emb[tags[0][1]]), full_road_emb[tags[1][1]]) < 0

\* the largest entry of the transition matrix
MaxEntry(tr) ==
    CHOOSE x \in { tr[a][b] : a \in DOMAIN tr, b \in DOMAIN tr } :
        \A a \in DOMAIN tr, b \in DOMAIN tr : tr[a][b] <= x

\* tag t exceeds every other tag at every valid step of element j by more
\* than (seq_length - 1) times the largest transition entry
Dominant(t, j) ==
    \A k \in DOMAIN mask :
        mask[k][j] =>
            \A u \in TagSet(num_tags) \ {t} :
                emissions[k][j][t] - emissions[k][j][u]
                    > (SeqLength(mask) - 1) * MaxEntry(trans)

\* C7: a dominant tag is decoded at every valid position
C7_DominantTagDecoded ==
    pc = "decoded" =>
        \A j \in Batch, t \in TagSet(num_tags) :
            Dominant(t, j) =>
                \A k \in StepSet(ValidLen(j)) : best_tags_list[j][k + 1] = t

\* a decoded element of full length with a dominant tag other than tag 0,
\* under a transition matrix that is not zero
C7_Witness ==
    /\ pc = "decoded"
    /\ MaxEntry(trans) > 0
    /\ \E j \in Batch, t \in TagSet(num_tags) \ {0} :
          /\ ValidLen(j) = MaxLen
          /\ Dominant(t, j)

\* C8: no CRF with neg_nums >= num_tags is ever constructed, and no
\* normaliser value is ever computed for one
C8_SampleSizeRejected ==
    /\ pc # "new" => neg_nums < num_tags
    /\ pc = "normalized" => neg_nums < num_tags

\* the shape C9 gives the list of batch element j
PaddedShape(j) ==
    /\ Len(best_tags_list[j]) = SeqLength(mask)
    /\ \A k \in 1 .. SeqLength(mask) :
          IF k <= ValidLen(j) THEN best_tags_list[j][k] \in TagSet(num_tags)
          ELSE best_tags_list[j][k] = -1

\* C9 as stated: for every prefix mask each list has seq_length entries,
\* the first L tags and the rest -1
C9_PaddedToSeqLength ==
    pc = "decoded" => \A j \in Batch : PaddedShape(j)

\* C9 amended: the same for every batch element of valid length L >= 1
C9_PaddedToSeqLengthValid ==
    pc = "decoded" => \A j \in Batch : ValidLen(j) >= 1 => PaddedShape(j)

\* a decoded batch whose elements have different valid lengths
C9_Witness ==
    /\ pc = "decoded"
    /\ ValidLen(0) >= 1 /\ ValidLen(0) < ValidLen(1)
    /\ best_tags_list[0][SeqLength(mask)] = -1

\* a loop iteration of _viterbi_decode is about to run
AtViterbiStep == pc = "viterbi" /\ i < SeqLength(mask)

====
